---- MODULE Spec2Model ----
(***************************************************************************)
(* LLM Security Helper (src/app.py): a Streamlit script.  The script runs  *)
(* top to bottom once per user interaction; a button reads TRUE only in    *)
(* the run its click started.  One run is: credential check, Gemini        *)
(* initialisation (probe loop, discovery fallback), then the two tabs.     *)
(* The remote service is the environment: every probe, listing and         *)
(* analysis call draws its outcome from a small set.                       *)
(***************************************************************************)
EXTENDS Integers, Sequences, FiniteSets, TLC

VARIABLES
    GEMINI_API_KEY,   \* os.getenv result: <<>> is None, <<s>> is the string s
    pc,               \* position of the current script run
    runs,             \* script runs started so far in this process
    resolutions,      \* times the initialisation block (lines 38-85) was entered
    clicked,          \* the button whose click started this run ("none": no button)
    calls,            \* kinds of genai calls made in this run
    model,            \* handle of the selected model (the name it is bound to)
    model_name,
    idx,              \* position of the for loop in models_to_try
    probeLog,         \* outcome of each probe of this run, in order
    discovery,        \* "none" | "raised" | "returned": genai.list_models() at line 72
    listed,           \* what list_models() returned at line 72
    available_models,
    error,            \* what halted startup ("none" when nothing did)
    display,          \* what this run rendered, in order: <<kind, payload>>
    code_input, language, spec_input, app_type,
    prompt,           \* the prompt this run built (<<>>: none)
    analysisCalls,    \* model.generate_content(prompt) calls of this run
    dispatchedVia,    \* the handle the analysis call of this run went through
    result,           \* "none" | "rejected" | "success" | "failure"
    failedVia         \* model of the latest earlier run whose analysis call failed

vars == <<GEMINI_API_KEY, pc, runs, resolutions, clicked, calls, model, model_name,
          idx, probeLog, discovery, listed, available_models, error, display,
          code_input, language, spec_input, app_type, prompt, analysisCalls,
          dispatchedVia, result, failedVia>>

(***************************************************************************)
(* Bounds of the model.                                                    *)
(***************************************************************************)
MaxTextLen == 2     \* longest text typed into a text area
MaxListed == 2      \* longest listing list_models() returns
MaxRuns == 3        \* script runs in one process lifetime: the first, then one per user interaction

None == "None"

(***************************************************************************)
(* Data of the script.                                                     *)
(***************************************************************************)
models_to_try ==
    << "gemini-pro", "gemini-1.5-pro", "gemini-1.5-flash", "gemini-1.0-pro",
       "models/gemini-pro", "models/gemini-1.5-pro", "models/gemini-1.5-flash" >>

\* Three backquotes, the Markdown code fence: a TLA+ string cannot hold a backquote.
Fence == "<fence>"

\* lines 143-173: the fixed stretches of the code-analysis template
CodeSeg1 ==
    << "You are a security expert analyzing code for vulnerabilities. \n\nAnalyze the following " >>
CodeSeg2 ==
    << " code and identify ALL security vulnerabilities:\n\n",
       Fence >>
CodeSeg3 ==
    << "\n" >>
CodeSeg4 ==
    << "\n",
       Fence,
       "\n\nProvide your analysis in the following format:\n\n## Security Vulnerabilities Found\n\nFor each vulnerability:\n### [Vulnerability Number]. [Vulnerability Name]\n- **Severity**: [Critical/High/Medium/Low]\n- **Description**: [Detailed explanation of the vulnerability]\n- **Attack Vector**: [How an attacker could exploit this]\n- **Impact**: [What could happen if exploited]\n\n## Recommended Fixes\n\nFor each vulnerability, provide:\n### Fix for [Vulnerability Name]\n- **Solution**: [Detailed explanation of how to fix it]\n- **Secure Code Example**:\n",
       Fence >>
CodeSeg5 ==
    << "\n[Provide the corrected, secure version of the code]\n",
       Fence,
       "\n- **Additional Best Practices**: [Any related security recommendations]\n\nFocus ONLY on security issues, not general code quality or refactoring suggestions." >>
\* lines 222-275: the fixed stretches of the spec-analysis template
SpecSeg1 ==
    << "You are a GenAI security expert specializing in OWASP LLM Top 10 and ATLAS (Adversarial Threat Landscape for AI Systems) frameworks.\n\nAnalyze the following " >>
SpecSeg2 ==
    << " specification for security vulnerabilities:\n\nAPPLICATION SPECIFICATION:\n" >>
SpecSeg3 ==
    << "\n\nProvide a comprehensive security analysis using BOTH frameworks:\n\n## OWASP LLM Top 10 Vulnerabilities Analysis\n\nFor each applicable vulnerability from the OWASP LLM Top 10, provide:\n\n### [OWASP-XX]: [Vulnerability Name]\n- **Risk Level**: [Critical/High/Medium/Low]\n- **Specific to this application**: [Explain exactly how this vulnerability applies to the described app]\n- **Attack Scenario**: [Concrete example of how an attacker could exploit this in THIS specific application]\n- **Mitigation Strategies**: [Specific, actionable steps to address this vulnerability]\n\nThe OWASP LLM Top 10 includes:\n1. LLM01: Prompt Injection\n2. LLM02: Insecure Output Handling\n3. LLM03: Training Data Poisoning\n4. LLM04: Model Denial of Service\n5. LLM05: Supply Chain Vulnerabilities\n6. LLM06: Sensitive Information Disclosure\n7. LLM07: Insecure Plugin Design\n8. LLM08: Excessive Agency\n9. LLM09: Overreliance\n10. LLM10: Model Theft\n\n## ATLAS Framework Analysis\n\nAnalyze using the ATLAS (Adversarial Threat Landscape for AI Systems) perspective:\n\n### Data Poisoning Threats\n[Specific risks and mitigations]\n\n### Evasion Attacks\n[Specific risks and mitigations]\n\n### Model Inversion/Extraction\n[Specific risks and mitigations]\n\n### Adversarial Examples\n[Specific risks and mitigations]\n\n## Priority Action Items\n\nList the top 5 most critical vulnerabilities to address first, ranked by:\n1. [Vulnerability name] - [Why it's critical for this app] - [Quick win mitigation]\n2. ...\n\nBe specific, actionable, and clear. Every recommendation should be directly applicable to the described application." >>

Languages ==
    << <<"P", "y", "t", "h", "o", "n">>,
       <<"J", "a", "v", "a", "S", "c", "r", "i", "p", "t">>,
       <<"J", "a", "v", "a">>,
       <<"C", "#">>,
       <<"P", "H", "P">>,
       <<"R", "u", "b", "y">>,
       <<"G", "o">>,
       <<"S", "Q", "L">>,
       <<"O", "t", "h", "e", "r">> >>

AppTypes ==
    << <<"C", "h", "a", "t", "b", "o", "t", "/", "V", "i", "r", "t", "u", "a", "l", " ", "A", "s", "s", "i", "s", "t", "a", "n", "t">>,
       <<"C", "o", "d", "e", " ", "G", "e", "n", "e", "r", "a", "t", "i", "o", "n", " ", "T", "o", "o", "l">>,
       <<"C", "o", "n", "t", "e", "n", "t", " ", "G", "e", "n", "e", "r", "a", "t", "o", "r">>,
       <<"D", "a", "t", "a", " ", "A", "n", "a", "l", "y", "s", "i", "s", " ", "A", "g", "e", "n", "t">>,
       <<"R", "A", "G", "-", "b", "a", "s", "e", "d", " ", "S", "y", "s", "t", "e", "m">>,
       <<"M", "u", "l", "t", "i", "-", "A", "g", "e", "n", "t", " ", "S", "y", "s", "t", "e", "m">>,
       <<"O", "t", "h", "e", "r">> >>

\* Text is a sequence of one-character strings.
Chars == {" ", "\n", "A"}
Texts == UNION {[1..n -> Chars] : n \in 0..MaxTextLen}

Whitespace == {" ", "\t", "\n", "\r", "\f"}

RECURSIVE LStrip(_)
LStrip(s) ==
    IF s = <<>> THEN <<>>
    ELSE IF Head(s) \in Whitespace THEN LStrip(Tail(s)) ELSE s

RECURSIVE RStrip(_)
RStrip(s) ==
    IF s = <<>> THEN <<>>
    ELSE IF s[Len(s)] \in Whitespace THEN RStrip(SubSeq(s, 1, Len(s) - 1)) ELSE s

\* str.strip()
Strip(s) == RStrip(LStrip(s))

IsBlankNoStrip(text) == text = <<>>

\* `not code_input.strip()` / `not spec_input.strip()`
IsBlank(text) == Strip(text) = <<>>

UpperCase == << "A","B","C","D","E","F","G","H","I","J","K","L","M",
                "N","O","P","Q","R","S","T","U","V","W","X","Y","Z" >>
LowerCase == << "a","b","c","d","e","f","g","h","i","j","k","l","m",
                "n","o","p","q","r","s","t","u","v","w","x","y","z" >>

LowerChar(c) ==
    IF \E k \in 1..Len(UpperCase) : UpperCase[k] = c
    THEN LowerCase[CHOOSE k \in 1..Len(UpperCase) : UpperCase[k] = c]
    ELSE c

\* str.lower()
Lower(s) == [k \in 1..Len(s) |-> LowerChar(s[k])]

(***************************************************************************)
(* The two prompt templates.  A prompt is the sequence of its pieces: the  *)
(* fixed stretches of the f-string are whole strings, the interpolated     *)
(* values are spliced in character by character.                           *)
(***************************************************************************)
CodePromptStripped(lang, code) ==
    CodeSeg1 \o lang \o CodeSeg2 \o Lower(lang) \o CodeSeg3
        \o Strip(code) \o CodeSeg4 \o Lower(lang) \o CodeSeg5

\* lines 143-173
CodePrompt(lang, code) ==
    CodeSeg1 \o lang \o CodeSeg2 \o Lower(lang) \o CodeSeg3
        \o code \o CodeSeg4 \o Lower(lang) \o CodeSeg5

\* lines 222-275
SpecPrompt(type, text) ==
    SpecSeg1 \o type \o SpecSeg2 \o text \o SpecSeg3

(***************************************************************************)
(* The environment's answers.                                              *)
(***************************************************************************)
KeyValues == { <<>>, <<"">>, <<"key">> }

\* lines 59-61: the try body raises (at the constructor or at the probe, the
\* except clause does not tell them apart), or the probe returns a falsy or a
\* truthy response
ProbeOutcomes == {"raises", "falsy", "truthy"}

DiscoveredNames == {"disc-a", "disc-b"}
ListedModels ==
    [name : DiscoveredNames,
     supported_generation_methods : {{"generateContent"}, {"embedContent"}}]
Listings == UNION {[1..n -> ListedModels] : n \in 0..MaxListed}

\* lines 176-181: generate_content raises; it returns a response whose text
\* reads; it returns a response whose .text accessor raises
GenOutcomes ==
    { [kind |-> "raises", text |-> "", err |-> "call failed"],
      [kind |-> "response", text |-> "analysis", err |-> ""],
      [kind |-> "response", text |-> "", err |-> "no text in response"] }

Buttons == {"none", "analyze_code", "analyze_spec"}

(***************************************************************************)
(* Decisions of the initialisation block.                                  *)
(***************************************************************************)
KeyMissingNoneOnly(key) == key = <<>>

\* line 30: not GEMINI_API_KEY or GEMINI_API_KEY == ""
KeyMissing(key) == key = <<>> \/ key[1] = ""

TruthyAnyResponse(test_response) == test_response \in {"truthy", "falsy"}

\* line 62: if test_response
Truthy(test_response) == test_response = "truthy"

AfterProbeNoBreak(selected, i) ==
    IF i = Len(models_to_try) THEN "after_loop" ELSE "probe"

\* lines 57, 65: the loop ends on break or after the last candidate
AfterProbe(selected, i) ==
    IF selected \/ i = Len(models_to_try) THEN "after_loop" ELSE "probe"

\* line 73
SupportsGenerateContent(m) == "generateContent" \in m.supported_generation_methods

RECURSIVE Available(_)
\* lines 71-74
Available(listing) ==
    IF listing = <<>> THEN <<>>
    ELSE IF SupportsGenerateContent(Head(listing))
         THEN <<Head(listing).name>> \o Available(Tail(listing))
         ELSE Available(Tail(listing))

FirstListed(listing, available) == listing[1].name

\* lines 78-79: the first available name; GenerativeModel(model_name) binds the
\* name to a handle and sends nothing, the handle is the name it is bound to
AutoSelected(listing, available) == available[1]

NoModelFoundIgnored == "connected"

\* line 82: raise Exception("No compatible models found"), caught at line 87
NoModelFound == "except"

(***************************************************************************)
(* The state when the process starts its first script run.                 *)
(***************************************************************************)
Init ==
    /\ GEMINI_API_KEY \in KeyValues
    /\ pc = "check_key"
    /\ runs = 1
    /\ resolutions = 0
    /\ clicked = "none"
    /\ calls = {}
    /\ model = None
    /\ model_name = None
    /\ idx = 1
    /\ probeLog = <<>>
    /\ discovery = "none"
    /\ listed = <<>>
    /\ available_models = <<>>
    /\ error = "none"
    /\ display = <<>>
    /\ code_input = <<>>
    /\ language = Languages[1]
    /\ spec_input = <<>>
    /\ app_type = AppTypes[1]
    /\ prompt = <<>>
    /\ analysisCalls = 0
    /\ dispatchedVia = None
    /\ result = "none"
    /\ failedVia = None

resolutionVars == <<model, model_name, idx, probeLog, discovery, listed, available_models>>
formVars == <<code_input, language, spec_input, app_type, prompt, analysisCalls,
              dispatchedVia, result>>
processVars == <<GEMINI_API_KEY, runs, clicked, failedVia>>

\* lines 22-35: the credential check; st.stop() ends the run
CheckKey ==
    /\ pc = "check_key"
    /\ IF KeyMissing(GEMINI_API_KEY)
       THEN /\ pc' = "halted"
            /\ error' = "MissingCredential"
            /\ display' = display \o << <<"error", "API Key Not Configured">> >>
       ELSE /\ pc' = "configure"
            /\ UNCHANGED <<error, display>>
    /\ UNCHANGED <<processVars, resolutions, calls, resolutionVars, formVars>>

\* lines 38-54: genai.configure, model = None, model_name = None
Configure ==
    /\ pc = "configure"
    /\ calls' = calls \cup {"configure"}
    /\ resolutions' = resolutions + 1
    /\ model' = None
    /\ model_name' = None
    /\ idx' = 1
    /\ pc' = "probe"
    /\ UNCHANGED <<processVars, probeLog, discovery, listed, available_models,
                   error, display, formVars>>

\* lines 57-67: one iteration of the probe loop
Probe ==
    /\ pc = "probe"
    /\ idx <= Len(models_to_try)
    /\ \E test_response \in ProbeOutcomes :
          /\ probeLog' = Append(probeLog, test_response)
          /\ IF Truthy(test_response)
             THEN /\ model' = models_to_try[idx]
                  /\ model_name' = models_to_try[idx]
             ELSE UNCHANGED <<model, model_name>>
          /\ pc' = AfterProbe(Truthy(test_response), idx)
    /\ calls' = calls \cup {"probe"}
    /\ idx' = idx + 1
    /\ UNCHANGED <<processVars, resolutions, discovery, listed, available_models,
                   error, display, formVars>>

\* lines 69-82: the discovery fallback, entered only when no probe selected a model
Discover ==
    /\ pc = "after_loop"
    /\ IF model # None
       THEN /\ pc' = "connected"
            /\ UNCHANGED <<calls, model, model_name, discovery, listed,
                           available_models, error, display>>
       ELSE /\ calls' = calls \cup {"list_models"}
            /\ \/ /\ discovery' = "raised"
                  /\ error' = "list_models failed"
                  /\ pc' = "except"
                  /\ UNCHANGED <<model, model_name, listed, available_models, display>>
               \/ \E listing \in Listings :
                     /\ discovery' = "returned"
                     /\ listed' = listing
                     /\ available_models' = Available(listing)
                     /\ IF Available(listing) # <<>>
                        THEN /\ model_name' = AutoSelected(listing, Available(listing))
                             /\ model' = model_name'
                             /\ display' = display \o
                                    << <<"sidebar.warning", "Auto-selected model">> >>
                             /\ pc' = "connected"
                             /\ UNCHANGED error
                        ELSE /\ error' = "No compatible models found"
                             /\ pc' = NoModelFound
                             /\ UNCHANGED <<model, model_name, display>>
    /\ UNCHANGED <<processVars, resolutions, idx, probeLog, formVars>>

\* lines 84-85, 110: initialisation succeeded; the tabs are laid out.  The
\* loop's bookkeeping is not read again in this run.
Connected ==
    /\ pc = "connected"
    /\ display' = display \o << <<"sidebar.success", "Gemini API connected">> >>
    /\ idx' = 1
    /\ probeLog' = <<>>
    /\ discovery' = "none"
    /\ listed' = <<>>
    /\ available_models' = <<>>
    /\ pc' = "tab1"
    /\ UNCHANGED <<processVars, resolutions, calls, model, model_name, error, formVars>>

\* lines 87-107: initialisation failed; the models are listed once more for
\* the diagnosis (that listing's own failure is passed over), then st.stop()
InitFailed ==
    /\ pc = "except"
    /\ calls' = calls \cup {"list_models"}
    /\ \E diagnosis \in {"listed", "raised"} :
          display' = display \o << <<"error", error>> >> \o
                     (IF diagnosis = "listed" THEN << <<"write", "models">> >> ELSE <<>>)
    /\ pc' = "halted"
    /\ UNCHANGED <<processVars, resolutions, resolutionVars, error, formVars>>

\* lines 176-185 and 278-287: the analysis call and what is rendered
Rendered(outcome) ==
    IF outcome.kind = "raises"
    THEN << <<"error", outcome.err>> >>
    ELSE << <<"success", "Analysis Complete">> >> \o
         (IF outcome.err = ""
          THEN << <<"markdown", outcome.text>> >>
          ELSE << <<"error", outcome.err>> >>)

Failed(outcome) == outcome.err # ""

\* lines 113-185: tab 1, the code form and its button handler
AnalyzeCode ==
    /\ pc = "tab1"
    /\ pc' = "tab2"
    /\ IF clicked = "analyze_code"
       THEN \E text \in Texts, lang \in 1..Len(Languages) :
              /\ code_input' = text
              /\ language' = Languages[lang]
              /\ IF IsBlank(text)
                 THEN /\ display' = display \o << <<"warning", "enter some code">> >>
                      /\ result' = "rejected"
                      /\ UNCHANGED <<prompt, analysisCalls, dispatchedVia, calls>>
                 ELSE /\ prompt' = CodePrompt(Languages[lang], text)
                      /\ analysisCalls' = analysisCalls + 1
                      /\ dispatchedVia' = model
                      /\ calls' = calls \cup {"generate_content"}
                      /\ \E outcome \in GenOutcomes :
                            /\ display' = display \o Rendered(outcome)
                            /\ result' = IF Failed(outcome) THEN "failure" ELSE "success"
       ELSE UNCHANGED <<code_input, language, prompt, analysisCalls, dispatchedVia,
                        calls, display, result>>
    /\ UNCHANGED <<processVars, resolutions, resolutionVars, error, spec_input, app_type>>

\* lines 188-287: tab 2, the specification form and its button handler
AnalyzeSpec ==
    /\ pc = "tab2"
    /\ pc' = "done"
    /\ IF clicked = "analyze_spec"
       THEN \E text \in Texts, type \in 1..Len(AppTypes) :
              /\ spec_input' = text
              /\ app_type' = AppTypes[type]
              /\ IF IsBlank(text)
                 THEN /\ display' = display \o << <<"warning", "enter specifications">> >>
                      /\ result' = "rejected"
                      /\ UNCHANGED <<prompt, analysisCalls, dispatchedVia, calls>>
                 ELSE /\ prompt' = SpecPrompt(AppTypes[type], text)
                      /\ analysisCalls' = analysisCalls + 1
                      /\ dispatchedVia' = model
                      /\ calls' = calls \cup {"generate_content"}
                      /\ \E outcome \in GenOutcomes :
                            /\ display' = display \o Rendered(outcome)
                            /\ result' = IF Failed(outcome) THEN "failure" ELSE "success"
       ELSE UNCHANGED <<spec_input, app_type, prompt, analysisCalls, dispatchedVia,
                        calls, display, result>>
    /\ UNCHANGED <<processVars, resolutions, resolutionVars, error, code_input, language>>

\* A user interaction with a rendered widget starts the script again from
\* line 1: every name the script binds is bound afresh.  The widgets are
\* rendered from line 118 on, so only a run that got past st.stop() offers one.
Rerun ==
    /\ pc = "done"
    /\ runs < MaxRuns
    /\ runs' = runs + 1
    /\ \E button \in Buttons : clicked' = button
    /\ failedVia' = IF result = "failure" THEN dispatchedVia ELSE failedVia
    /\ pc' = "check_key"
    /\ calls' = {}
    /\ model' = None
    /\ model_name' = None
    /\ idx' = 1
    /\ probeLog' = <<>>
    /\ discovery' = "none"
    /\ listed' = <<>>
    /\ available_models' = <<>>
    /\ error' = "none"
    /\ display' = <<>>
    /\ code_input' = <<>>
    /\ language' = Languages[1]
    /\ spec_input' = <<>>
    /\ app_type' = AppTypes[1]
    /\ prompt' = <<>>
    /\ analysisCalls' = 0
    /\ dispatchedVia' = None
    /\ result' = "none"
    /\ UNCHANGED <<GEMINI_API_KEY, resolutions>>

Next ==
    \/ CheckKey
    \/ Configure
    \/ Probe
    \/ Discover
    \/ Connected
    \/ InitFailed
    \/ AnalyzeCode
    \/ AnalyzeSpec
    \/ Rerun

Spec == Init /\ [][Next]_vars

(***************************************************************************)
(* The two prompt builders on their own: every label of a form's           *)
(* enumeration with every text up to the bound, blank ones included.       *)
(***************************************************************************)
PromptInit ==
    /\ GEMINI_API_KEY = <<"key">>
    /\ pc = "build"
    /\ runs = 1
    /\ resolutions = 0
    /\ clicked \in {"analyze_code", "analyze_spec"}
    /\ calls = {}
    /\ model = None
    /\ model_name = None
    /\ idx = 1
    /\ probeLog = <<>>
    /\ discovery = "none"
    /\ listed = <<>>
    /\ available_models = <<>>
    /\ error = "none"
    /\ display = <<>>
    /\ IF clicked = "analyze_code"
       THEN /\ code_input \in Texts
            /\ \E l \in 1..Len(Languages) : language = Languages[l]
            /\ spec_input = <<>>
            /\ app_type = AppTypes[1]
       ELSE /\ spec_input \in Texts
            /\ \E a \in 1..Len(AppTypes) : app_type = AppTypes[a]
            /\ code_input = <<>>
            /\ language = Languages[1]
    /\ prompt = <<>>
    /\ analysisCalls = 0
    /\ dispatchedVia = None
    /\ result = "none"
    /\ failedVia = None

\* lines 143-173
BuildCodePrompt ==
    /\ pc = "build"
    /\ clicked = "analyze_code"
    /\ prompt' = CodePrompt(language, code_input)
    /\ pc' = "built"
    /\ UNCHANGED <<processVars, resolutions, calls, resolutionVars, error, display,
                   code_input, language, spec_input, app_type, analysisCalls,
                   dispatchedVia, result>>

\* lines 222-275
BuildSpecPrompt ==
    /\ pc = "build"
    /\ clicked = "analyze_spec"
    /\ prompt' = SpecPrompt(app_type, spec_input)
    /\ pc' = "built"
    /\ UNCHANGED <<processVars, resolutions, calls, resolutionVars, error, display,
                   code_input, language, spec_input, app_type, analysisCalls,
                   dispatchedVia, result>>

PromptNext == BuildCodePrompt \/ BuildSpecPrompt

PromptSpec == PromptInit /\ [][PromptNext]_vars

(***************************************************************************)
(* Helpers of the properties.                                              *)
(***************************************************************************)
Contains(seq, sub) ==
    \E i \in 0..(Len(seq) - Len(sub)) : SubSeq(seq, i + 1, i + Len(sub)) = sub

Succeeded(log) == {k \in 1..Len(log) : log[k] = "truthy"}
FirstSucceeded(log) == CHOOSE k \in Succeeded(log) : \A j \in Succeeded(log) : k <= j

Qualified(listing) ==
    {k \in 1..Len(listing) : "generateContent" \in listing[k].supported_generation_methods}
FirstQualified(listing) == CHOOSE k \in Qualified(listing) : \A j \in Qualified(listing) : k <= j

OnlyWhitespace(text) == \A k \in 1..Len(text) : text[k] \in {" ", "\t", "\n", "\r", "\f"}

Shown(kind) == \E k \in 1..Len(display) : display[k][1] = kind

(***************************************************************************)
(* C1 - first-success rule.  The probe loop makes at most one probe per    *)
(* candidate, and a probe that raises does not end it: the loop ends only  *)
(* on a success or after the last candidate.  Once a probe has succeeded   *)
(* the loop is over, the selected model is the candidate with the smallest *)
(* index whose probe succeeded, and startup is not halted.                 *)
(***************************************************************************)
C1_FirstSuccess ==
    /\ Len(probeLog) <= Len(models_to_try)
    /\ pc = "probe" => /\ Succeeded(probeLog) = {}
                       /\ Len(probeLog) = idx - 1
                       /\ idx <= Len(models_to_try)
                       /\ error = "none"
    /\ (pc = "after_loop" /\ Succeeded(probeLog) = {})
            => Len(probeLog) = Len(models_to_try)
    /\ Succeeded(probeLog) # {}
            => /\ pc \in {"after_loop", "connected"}
               /\ model_name = models_to_try[FirstSucceeded(probeLog)]
               /\ model = model_name
               /\ discovery = "none"
               /\ error = "none"

\* m1 raises, m2 succeeds: m2 is selected
C1_Witness ==
    /\ pc = "after_loop"
    /\ probeLog = <<"raises", "truthy">>
    /\ model_name = models_to_try[2]

(***************************************************************************)
(* C2 - discovery fallback.  Discovery is reached only after every         *)
(* candidate's probe failed.  When the listing returns and holds a model   *)
(* that supports generateContent, initialisation succeeds and the selected *)
(* model is the first such entry in the order listed.                      *)
(***************************************************************************)
C2_DiscoveryFallback ==
    /\ discovery # "none"
            => /\ Len(probeLog) = Len(models_to_try)
               /\ Succeeded(probeLog) = {}
    /\ (discovery = "returned" /\ Qualified(listed) # {})
            => /\ pc = "connected"
               /\ model_name = listed[FirstQualified(listed)].name
               /\ model = model_name
               /\ error = "none"

\* the first listed entry lacks the capability and is skipped
C2_Witness ==
    /\ pc = "connected"
    /\ discovery = "returned"
    /\ Len(listed) = 2
    /\ Qualified(listed) = {2}
    /\ model_name = listed[2].name

(***************************************************************************)
(* C3 - terminal unavailability.  When every probe failed and the listing  *)
(* holds no model that supports generateContent, initialisation fails with *)
(* "No compatible models found", the script halts and stays halted, and no *)
(* analysis call is made; an analysis call is only ever made through a     *)
(* selected model.                                                         *)
(***************************************************************************)
C3_Unavailable ==
    /\ (discovery = "returned" /\ Qualified(listed) = {})
            => /\ pc \in {"except", "halted"}
               /\ error = "No compatible models found"
               /\ model = None
               /\ analysisCalls = 0
               /\ "generate_content" \notin calls
    /\ pc = "halted" => (analysisCalls = 0 /\ "generate_content" \notin calls)
    /\ pc \in {"tab1", "tab2", "done"} => model # None
    /\ analysisCalls > 0 => (model # None /\ dispatchedVia = model)

C3_TerminalUnavailability ==
    /\ []C3_Unavailable
    /\ [][pc = "halted" => (pc' = "halted" /\ analysisCalls' = analysisCalls)]_vars

C3_Witness ==
    /\ pc = "halted"
    /\ error = "No compatible models found"
    /\ Len(probeLog) = Len(models_to_try)
    /\ Len(listed) = 1

(***************************************************************************)
(* C4 - missing credential.  With GEMINI_API_KEY unset or empty the run    *)
(* halts at the credential check with MissingCredential and makes no genai *)
(* call at all: no configure, no probe, no listing, no analysis call.      *)
(***************************************************************************)
C4_MissingCredential ==
    GEMINI_API_KEY \in { <<>>, <<"">> }
        => /\ pc \in {"check_key", "halted"}
           /\ pc = "halted" => error = "MissingCredential"
           /\ calls = {}
           /\ resolutions = 0
           /\ analysisCalls = 0

C4_Witness ==
    /\ GEMINI_API_KEY = <<"">>
    /\ pc = "halted"
    /\ error = "MissingCredential"

(***************************************************************************)
(* C5 - resolve once (as claimed).  In one process lifetime the            *)
(* initialisation block is entered at most once, and a run started by a    *)
(* later user action makes no probe and no listing call.                   *)
(***************************************************************************)
C5_ResolveOnce ==
    /\ resolutions <= 1
    /\ runs > 1 => calls \cap {"probe", "list_models"} = {}

(***************************************************************************)
(* C6 - analysis failure contained and recoverable (as claimed).  A failed *)
(* analysis call shows the error's description, the handler returns, the   *)
(* selected model is untouched, and a later submission is sent through the *)
(* same model as the failed one.                                           *)
(***************************************************************************)
C6_FailureRecoverable ==
    /\ result = "failure"
            => /\ pc \in {"tab2", "done"}
               /\ display[Len(display)][1] = "error"
               /\ display[Len(display)][2] \in {"call failed", "no text in response"}
               /\ model = dispatchedVia
    /\ (failedVia # None /\ analysisCalls > 0) => dispatchedVia = failedVia

\* The part of C6 that holds within the run of the failed call.
C6_ContainedInRun ==
    result = "failure"
        => /\ pc \in {"tab2", "done"}
           /\ display[Len(display)][1] = "error"
           /\ display[Len(display)][2] \in {"call failed", "no text in response"}
           /\ model = dispatchedVia
           /\ model = model_name

(***************************************************************************)
(* C7 - no partial rendering, no retry (as claimed).  A submission makes   *)
(* exactly one analysis call, and shows either the success indicator with  *)
(* the response text or an error, never both.                              *)
(***************************************************************************)
C7_NoPartialRendering ==
    /\ analysisCalls <= 1
    /\ result \in {"success", "failure"} => analysisCalls = 1
    /\ result = "success" => (Shown("success") /\ Shown("markdown") /\ ~Shown("error"))
    /\ result = "failure" => (Shown("error") /\ ~Shown("success"))

\* The part of C7 that holds: one call for each submission that passes the
\* blank check, none otherwise.
C7_SingleCall ==
    /\ analysisCalls <= 1
    /\ result \in {"success", "failure"} => analysisCalls = 1
    /\ result \in {"none", "rejected"} => analysisCalls = 0

(***************************************************************************)
(* C8 - empty-input rejection.  In both forms a submission whose text is   *)
(* empty or only whitespace gets a warning; no prompt is built and no      *)
(* analysis call is made in that run.                                      *)
(***************************************************************************)
C8_EmptyInputRejected ==
    /\ (clicked = "analyze_code" /\ pc \in {"tab2", "done"} /\ OnlyWhitespace(code_input))
            => /\ result = "rejected"
               /\ Shown("warning")
               /\ prompt = <<>>
               /\ analysisCalls = 0
               /\ "generate_content" \notin calls
    /\ (clicked = "analyze_spec" /\ pc = "done" /\ OnlyWhitespace(spec_input))
            => /\ result = "rejected"
               /\ Shown("warning")
               /\ prompt = <<>>
               /\ analysisCalls = 0
               /\ "generate_content" \notin calls

C8_Witness ==
    /\ clicked = "analyze_spec"
    /\ pc = "done"
    /\ spec_input = <<" ", "\n">>
    /\ result = "rejected"

(***************************************************************************)
(* C9 - prompt round trip and injectivity.  The prompt a handler built     *)
(* holds the submitted text unchanged as a contiguous stretch, holds the   *)
(* category label, and no other (category, text) input of the same form    *)
(* yields the same prompt.                                                 *)
(***************************************************************************)
C9_PromptRoundTrip ==
    /\ (clicked = "analyze_code" /\ prompt # <<>>)
            => /\ Contains(prompt, code_input)
               /\ Contains(prompt, language)
               /\ \A l \in 1..Len(Languages), t \in Texts :
                     CodePrompt(Languages[l], t) = prompt
                         => (Languages[l] = language /\ t = code_input)
    /\ (clicked = "analyze_spec" /\ prompt # <<>>)
            => /\ Contains(prompt, spec_input)
               /\ Contains(prompt, app_type)
               /\ \A a \in 1..Len(AppTypes), t \in Texts :
                     SpecPrompt(AppTypes[a], t) = prompt
                         => (AppTypes[a] = app_type /\ t = spec_input)

\* a label that lower() changes, a text that strip() would change
C9_Witness ==
    /\ pc = "built"
    /\ clicked = "analyze_code"
    /\ language = <<"C", "#">>
    /\ code_input = <<" ", "A">>
    /\ Contains(prompt, <<"c", "#">>)

(***************************************************************************)
(* C10 - a falsy probe response does not select.  A candidate whose probe  *)
(* returned a falsy response is passed over like one whose probe raised:   *)
(* the selected candidate is always the one whose probe returned a truthy  *)
(* response, and discovery is reached with every response falsy or raised. *)
(***************************************************************************)
C10_FalsyNotSelected ==
    /\ (probeLog # <<>> /\ probeLog[Len(probeLog)] \in {"falsy", "raises"})
            => /\ discovery = "none" => (model = None /\ model_name = None)
               /\ pc = "probe" \/ Len(probeLog) = Len(models_to_try)
    /\ (probeLog # <<>> /\ pc \in {"probe", "after_loop"} /\ model # None)
            => /\ probeLog[Len(probeLog)] = "truthy"
               /\ model = models_to_try[Len(probeLog)]
    /\ discovery # "none"
            => \A k \in 1..Len(models_to_try) : probeLog[k] \in {"falsy", "raises"}

\* the first candidate answers with a falsy response, the second is selected
C10_Witness ==
    /\ pc = "after_loop"
    /\ probeLog = <<"falsy", "truthy">>
    /\ model_name = models_to_try[2]

====
